---------------------------- MODULE Spec2Model ----------------------------
(***************************************************************************)
(* A model of the D&D party tracker (src/app.py): the three storage        *)
(* backends behind read_party / write_party (gist, Google Sheets, local    *)
(* CSV file), the CSV text conversions they go through, the cached Sheets  *)
(* handle, and the GM key gate of main.                                    *)
(*                                                                         *)
(* Text is modelled as a sequence of tokens.  A token is one character     *)
(* ("a", " ", ",", the double quote, "\r", "\n") or, for the column names, *)
(* one whole name ("Level", "Session Date", ...), which stands for a run   *)
(* of characters none of which is special to CSV.  A Python str is such a  *)
(* sequence; Python's None is the one-token sequence NoneVal, whose token  *)
(* is no character.  A Python dict is a sequence of [k, v] pairs with      *)
(* distinct keys, in insertion order.                                      *)
(***************************************************************************)
EXTENDS Naturals, Sequences, FiniteSets, TLC

VARIABLES
    secrets,      \* st.secrets / os.environ: which configuration values are set
    gistSvc,      \* the gist service: "up", "down", or "rawfail"
    gistText,     \* content of the gist file (a text), or NoFile
    sheetsUp,     \* whether the Google Sheets service answers
    sheet,        \* the "Party" worksheet as get_all_values sees it, or NoTab
    wsCache,      \* st.cache_resource entry of _get_gsheets_client
    fileMode,     \* the local file system: "ok", "denied" or "full"
    fileText,     \* content of party_state.csv (a text), or NoFile
    last,         \* what the most recent program operation did and returned
    saved,        \* the record of the most recent save that completed
    gate          \* inputs and result of the most recent gate evaluation

vars == <<secrets, gistSvc, gistText, sheetsUp, sheet, wsCache, fileMode,
          fileText, last, saved, gate>>

-----------------------------------------------------------------------------
(* Data model                                                              *)

PARTY_FIELDS ==
    <<"Level", "Session Date", "Location", "What Happened Last",
      "Quest Hooks", "Loot/Rewards">>

CSV_FALLBACK_PATH == "party_state.csv"

Empty == << >>
NoneVal == <<"None">>
NoFile == <<"<no file>">>
NoTab == << << <<"<no worksheet>">> >> >>

Range(s) == {s[i] : i \in 1..Len(s)}
Min(a, b) == IF a < b THEN a ELSE b

\* dict.get(k, dflt)
DictGet(d, k, dflt) ==
    IF \E i \in 1..Len(d) : d[i].k = k
    THEN d[CHOOSE i \in 1..Len(d) : d[i].k = k].v
    ELSE dflt

\* d[k] = v : an existing key keeps its place, a new key goes last
DictSet(d, k, v) ==
    IF \E i \in 1..Len(d) : d[i].k = k
    THEN [i \in 1..Len(d) |-> IF d[i].k = k THEN [k |-> k, v |-> v] ELSE d[i]]
    ELSE Append(d, [k |-> k, v |-> v])

RECURSIVE ZipFrom(_, _, _, _)
ZipFrom(d, keys, vals, i) ==
    IF i > Min(Len(keys), Len(vals)) THEN d
    ELSE ZipFrom(DictSet(d, keys[i], vals[i]), keys, vals, i + 1)

\* dict(zip(keys, vals))
ZipDict(keys, vals) == ZipFrom(<< >>, keys, vals, 1)

\* {k: "" for k in PARTY_FIELDS}
_defaults == [i \in 1..Len(PARTY_FIELDS) |-> [k |-> PARTY_FIELDS[i], v |-> Empty]]

\* {k: r.get(k, "") for k in PARTY_FIELDS}
Project(r) ==
    [i \in 1..Len(PARTY_FIELDS) |->
        [k |-> PARTY_FIELDS[i], v |-> DictGet(r, PARTY_FIELDS[i], Empty)]]

-----------------------------------------------------------------------------
(* str.strip(), str.splitlines(), file iteration                           *)

Whitespace == {" ", "\n", "\r"}
LineBreaks == {"\n", "\r"}

RECURSIVE LStrip(_)
LStrip(s) ==
    IF s # << >> /\ Head(s) \in Whitespace THEN LStrip(Tail(s)) ELSE s

RECURSIVE RStrip(_)
RStrip(s) ==
    IF s # << >> /\ s[Len(s)] \in Whitespace
    THEN RStrip(SubSeq(s, 1, Len(s) - 1)) ELSE s

\* str(x).strip()
Strip(s) == RStrip(LStrip(s))

\* The lines of a text.  keepends = FALSE is text.splitlines(); keepends =
\* TRUE is the iteration of a file opened with newline="" (line ends are
\* recognised as "\n", "\r" or "\r\n" and left in the line).
RECURSIVE LinesFrom(_, _, _, _, _)
LinesFrom(t, i, cur, acc, keepends) ==
    IF i > Len(t) THEN (IF cur = << >> THEN acc ELSE Append(acc, cur))
    ELSE IF t[i] = "\r" /\ i < Len(t) /\ t[i + 1] = "\n"
         THEN LinesFrom(t, i + 2, << >>,
                  Append(acc, IF keepends THEN cur \o <<"\r", "\n">> ELSE cur),
                  keepends)
    ELSE IF t[i] \in LineBreaks
         THEN LinesFrom(t, i + 1, << >>,
                  Append(acc, IF keepends THEN Append(cur, t[i]) ELSE cur),
                  keepends)
    ELSE LinesFrom(t, i + 1, Append(cur, t[i]), acc, keepends)

SplitLines(t) == LinesFrom(t, 1, << >>, << >>, FALSE)
FileLines(t) == LinesFrom(t, 1, << >>, << >>, TRUE)

-----------------------------------------------------------------------------
(* csv.writer / csv.DictWriter with the default (excel) dialect            *)

Delimiter == ","
QuoteChar == "\""
LineTerminator == <<"\r", "\n">>

\* A writer that never quotes
NeedsQuote_Never(s) == FALSE

\* QUOTE_MINIMAL: a field is quoted when it holds the delimiter, the quote
\* character or a character of the line terminator
NeedsQuote(s) ==
    \E i \in 1..Len(s) : s[i] \in ({Delimiter, QuoteChar} \cup Range(LineTerminator))

RECURSIVE DoubleQuotes(_)
DoubleQuotes(s) ==
    IF s = << >> THEN << >>
    ELSE (IF Head(s) = QuoteChar THEN <<QuoteChar, QuoteChar>> ELSE <<Head(s)>>)
         \o DoubleQuotes(Tail(s))

WriteField(s) ==
    IF NeedsQuote(s) THEN <<QuoteChar>> \o DoubleQuotes(s) \o <<QuoteChar>> ELSE s

RECURSIVE JoinFields(_, _)
JoinFields(row, i) ==
    IF i > Len(row) THEN << >>
    ELSE (IF i > 1 THEN <<Delimiter>> ELSE << >>)
         \o WriteField(row[i]) \o JoinFields(row, i + 1)

\* writer.writerow(row); a row of one empty field is written as ""
WriteRow(row) ==
    (IF Len(row) = 1 /\ row[1] = << >> THEN <<QuoteChar, QuoteChar>>
     ELSE JoinFields(row, 1)) \o LineTerminator

HeaderRow == [i \in 1..Len(PARTY_FIELDS) |-> <<PARTY_FIELDS[i]>>]

\* DictWriter(fieldnames=PARTY_FIELDS): writeheader(), writerow(data)
DataRow(data) == [i \in 1..Len(PARTY_FIELDS) |-> DictGet(data, PARTY_FIELDS[i], Empty)]
CsvText(data) == WriteRow(HeaderRow) \o WriteRow(DataRow(data))

-----------------------------------------------------------------------------
(* csv.reader: the parser's state machine, one character at a time         *)

EOL == "<EOL>"
ParserReset == [st |-> "START_RECORD", field |-> << >>, fields |-> << >>]

SaveField(p, st) == [st |-> st, field |-> << >>, fields |-> Append(p.fields, p.field)]
AddChar(p, c, st) == [p EXCEPT !.st = st, !.field = Append(p.field, c)]
AfterEnd(c) == IF c = EOL THEN "START_RECORD" ELSE "EAT_CRNL"

StartField(p, c) ==
    IF c \in LineBreaks \cup {EOL} THEN SaveField(p, AfterEnd(c))
    ELSE IF c = QuoteChar THEN [p EXCEPT !.st = "IN_QUOTED_FIELD"]
    ELSE IF c = Delimiter THEN SaveField(p, "START_FIELD")
    ELSE AddChar(p, c, "IN_FIELD")

ParseProcessChar(p, c) ==
    CASE p.st = "START_RECORD" ->
            IF c = EOL THEN p
            ELSE IF c \in LineBreaks THEN [p EXCEPT !.st = "EAT_CRNL"]
            ELSE StartField(p, c)
      [] p.st = "START_FIELD" -> StartField(p, c)
      [] p.st = "IN_FIELD" ->
            IF c \in LineBreaks \cup {EOL} THEN SaveField(p, AfterEnd(c))
            ELSE IF c = Delimiter THEN SaveField(p, "START_FIELD")
            ELSE AddChar(p, c, "IN_FIELD")
      [] p.st = "IN_QUOTED_FIELD" ->
            IF c = EOL THEN p
            ELSE IF c = QuoteChar THEN [p EXCEPT !.st = "QUOTE_IN_QUOTED_FIELD"]
            ELSE AddChar(p, c, "IN_QUOTED_FIELD")
      [] p.st = "QUOTE_IN_QUOTED_FIELD" ->
            IF c = QuoteChar THEN AddChar(p, c, "IN_QUOTED_FIELD")
            ELSE IF c = Delimiter THEN SaveField(p, "START_FIELD")
            ELSE IF c \in LineBreaks \cup {EOL} THEN SaveField(p, AfterEnd(c))
            ELSE AddChar(p, c, "IN_FIELD")
      [] p.st = "EAT_CRNL" ->
            IF c \in LineBreaks THEN p
            ELSE IF c = EOL THEN [p EXCEPT !.st = "START_RECORD"]
            ELSE [p EXCEPT !.st = "ERROR"]
      [] OTHER -> p

RECURSIVE FeedLine(_, _, _)
FeedLine(p, line, j) ==
    IF j > Len(line) THEN ParseProcessChar(p, EOL)
    ELSE FeedLine(ParseProcessChar(p, line[j]), line, j + 1)

\* All the rows the reader yields from the lines; <<"ERROR">> when it raises.
\* A record goes on over the next line while the parser is not back in
\* START_RECORD; at the end of the input an unfinished quoted field is saved.
RECURSIVE ReaderRows(_, _, _, _)
ReaderRows(lines, i, p, rows) ==
    IF i > Len(lines)
    THEN (IF p.st = "IN_QUOTED_FIELD" \/ p.field # << >>
          THEN Append(rows, Append(p.fields, p.field)) ELSE rows)
    ELSE LET q == FeedLine(p, lines[i], 1) IN
         IF q.st = "ERROR" THEN <<"ERROR">>
         ELSE IF q.st = "START_RECORD"
              THEN ReaderRows(lines, i + 1, ParserReset, Append(rows, q.fields))
              ELSE ReaderRows(lines, i + 1, q, rows)

CsvReader(lines) == ReaderRows(lines, 1, ParserReset, << >>)

-----------------------------------------------------------------------------
(* csv.DictReader: the first row it yields                                 *)

NoRow == [found |-> FALSE, d |-> << >>]
RestKey == "<restkey None>"
RestList == <<"<list>">>

\* One DictReader row: dict(zip(fieldnames, row)); surplus cells go under
\* restkey (None), missing cells get restval (None)
RECURSIVE FillRest(_, _, _)
FillRest(d, keys, i) ==
    IF i > Len(keys) THEN d ELSE FillRest(DictSet(d, keys[i], NoneVal), keys, i + 1)

DictRow(fieldnames, row) ==
    LET keys == [i \in 1..Len(fieldnames) |->
                    IF Len(fieldnames[i]) = 1 THEN fieldnames[i][1] ELSE "<other>"]
        d == ZipDict(keys, row)
    IN  IF Len(keys) < Len(row) THEN DictSet(d, RestKey, RestList)
        ELSE IF Len(keys) > Len(row) THEN FillRest(d, keys, Len(row) + 1)
        ELSE d

\* for r in reader: return ... -- the header is the reader's first row, the
\* data row the first row after it that is not empty
FirstDictRow(rows) ==
    IF Len(rows) < 2 \/ \A i \in 2..Len(rows) : rows[i] = << >> THEN NoRow
    ELSE LET i == CHOOSE j \in 2..Len(rows) :
                      rows[j] # << >> /\ \A m \in 2..(j - 1) : rows[m] = << >>
         IN  [found |-> TRUE, d |-> DictRow(rows[1], rows[i])]

-----------------------------------------------------------------------------
(* The environment a call runs in.  The operations below are functions of  *)
(* an explicit state record s, with the fields of the variables of the     *)
(* same names, so that one call can be applied to the state another left.  *)

Cur ==
    [secrets |-> secrets, gistSvc |-> gistSvc, gistText |-> gistText,
     sheetsUp |-> sheetsUp, sheet |-> sheet, wsCache |-> wsCache,
     fileMode |-> fileMode, fileText |-> fileText]

\* A use_gist that looks at the token alone
use_gist_TokenOnly(s) == s.secrets.GIST_TOKEN

\* bool(s.get("GIST_TOKEN", "")) and bool(s.get("GIST_ID", "")) and ...
use_gist(s) == s.secrets.GIST_TOKEN /\ s.secrets.GIST_ID /\ s.secrets.GIST_FILENAME

\* bool(os.environ.get("GSHEETS_SA_JSON")) and bool(os.environ.get("GSHEETS_SHEET_NAME"))
use_gsheets(s) == s.secrets.GSHEETS_SA_JSON /\ s.secrets.GSHEETS_SHEET_NAME

\* _gist_read_file: the metadata GET raises when the service is down; no
\* file of that name, or a raw GET that does not answer 200, gives "".
_gist_read_file(s) ==
    IF s.gistSvc = "down" THEN [raised |-> TRUE, text |-> << >>]
    ELSE IF s.gistText = NoFile \/ s.gistSvc = "rawfail"
         THEN [raised |-> FALSE, text |-> << >>]
         ELSE [raised |-> FALSE, text |-> s.gistText]

\* _gist_write_file: PATCH the file's content; raise_for_status
_gist_write_file(s, csv_text) ==
    IF s.gistSvc = "down" THEN [raised |-> TRUE, s |-> s]
    ELSE [raised |-> FALSE, s |-> [s EXCEPT !.gistText = csv_text]]

\* What get_all_values returns for the cells written: rows after the last
\* row that holds a value are not part of the sheet's data.
RowIsBlank(row) == \A i \in 1..Len(row) : row[i] = << >>

RECURSIVE SheetView(_)
SheetView(rows) ==
    IF rows # << >> /\ RowIsBlank(rows[Len(rows)])
    THEN SheetView(SubSeq(rows, 1, Len(rows) - 1)) ELSE rows

\* _get_gsheets_client under @st.cache_resource.  A cached return value,
\* the worksheet or None, is returned again without running the body; with
\* a cached None the st.warning the body made is replayed.  A first call
\* opens the spreadsheet, adds the "Party" worksheet with the header row
\* when there is none, and caches what it returns.
_get_gsheets_client(s) ==
    CASE s.wsCache = "ws" -> [ws |-> TRUE, warnings |-> 0, s |-> s]
      [] s.wsCache = "none" -> [ws |-> FALSE, warnings |-> 1, s |-> s]
      [] OTHER ->
            IF s.sheetsUp
            THEN [ws |-> TRUE, warnings |-> 0,
                  s |-> [s EXCEPT !.wsCache = "ws",
                                  !.sheet = IF s.sheet = NoTab
                                            THEN SheetView(<<HeaderRow>>) ELSE s.sheet]]
            ELSE [ws |-> FALSE, warnings |-> 1, s |-> [s EXCEPT !.wsCache = "none"]]

\* The key a header cell is in a dict: a column name is its one token
KeyOf(cell) == IF Len(cell) = 1 THEN cell[1] ELSE "<other>"

RECURSIVE SetDefaults(_, _)
SetDefaults(d, i) ==
    IF i > Len(PARTY_FIELDS) THEN d
    ELSE SetDefaults(IF \E j \in 1..Len(d) : d[j].k = PARTY_FIELDS[i] THEN d
                     ELSE DictSet(d, PARTY_FIELDS[i], Empty), i + 1)

\* read_party, Google Sheets: the record of the values of the worksheet
SheetRecord(vals) ==
    IF Len(vals) < 2 THEN _defaults
    ELSE LET header == [i \in 1..Len(vals[1]) |-> KeyOf(vals[1][i])]
             data == SetDefaults(ZipDict(header, vals[2]), 1)
         IN  [i \in 1..Len(PARTY_FIELDS) |->
                 [k |-> PARTY_FIELDS[i], v |-> DictGet(data, PARTY_FIELDS[i], NoneVal)]]

NoRecord == << >>
Returned(rec, src, w, s) ==
    [rec |-> rec, src |-> src, warnings |-> w, errors |-> 0, raised |-> FALSE, s |-> s]
Raised(src, w, s) ==
    [rec |-> NoRecord, src |-> src, warnings |-> w, errors |-> 0, raised |-> TRUE, s |-> s]

\* read_party, step 3: the local CSV file; any exception is passed over
ReadLocal(s, w) ==
    IF s.fileText # NoFile /\ s.fileMode # "denied"
    THEN LET rows == CsvReader(FileLines(s.fileText))
             r == IF rows = <<"ERROR">> THEN NoRow ELSE FirstDictRow(rows)
         IN  Returned(IF r.found THEN Project(r.d) ELSE _defaults, "file", w, s)
    ELSE Returned(_defaults, "file", w, s)

\* read_party, step 2: Google Sheets; get_all_values is outside any try
ReadSheets(s, w) ==
    IF use_gsheets(s)
    THEN LET c == _get_gsheets_client(s) IN
         IF c.ws
         THEN (IF c.s.sheetsUp
               THEN Returned(SheetRecord(c.s.sheet), "sheets", w + c.warnings, c.s)
               ELSE Raised("sheets", w + c.warnings, c.s))
         ELSE ReadLocal(c.s, w + c.warnings)
    ELSE ReadLocal(s, w)

\* read_party, step 1: the gist; an exception is warned about and the next
\* backend is tried, and so is it, without a warning, when the text is blank
ReadParty(s) ==
    IF use_gist(s)
    THEN LET g == _gist_read_file(s) IN
         IF g.raised THEN ReadSheets(s, 1)
         ELSE IF Strip(g.text) # << >>
              THEN LET rows == CsvReader(SplitLines(g.text)) IN
                   IF rows = <<"ERROR">> THEN ReadSheets(s, 1)
                   ELSE LET r == FirstDictRow(rows) IN
                        Returned(IF r.found THEN Project(r.d) ELSE _defaults,
                                 "gist", 0, s)
              ELSE ReadSheets(s, 0)
    ELSE ReadSheets(s, 0)

\* data = {k: str(data.get(k, "")).strip() for k in PARTY_FIELDS}
Normalize(data) ==
    [i \in 1..Len(PARTY_FIELDS) |->
        [k |-> PARTY_FIELDS[i], v |-> Strip(DictGet(data, PARTY_FIELDS[i], Empty))]]

\* dest is the backend the call ended at, stored whether it took the record
Written(dest, stored, w, e, s) ==
    [dest |-> dest, stored |-> stored, warnings |-> w, errors |-> e,
     raised |-> FALSE, s |-> s]

\* write_party, step 3: the local CSV file.  open(..., "w") fails when the
\* file system denies it and leaves the file as it was; when the file
\* system is full the file is opened, and so truncated, and holds `partial`
\* when the write fails.  Either way st.error is called and nothing raised.
WriteLocal(s, data, w, e, partial) ==
    CASE s.fileMode = "ok" ->
            Written("file", TRUE, w, e, [s EXCEPT !.fileText = CsvText(data)])
      [] s.fileMode = "denied" -> Written("file", FALSE, w, e + 1, s)
      [] OTHER -> Written("file", FALSE, w, e + 1, [s EXCEPT !.fileText = partial])

\* write_party, step 2: Google Sheets; clear and append_row are outside any try
WriteSheets(s, data, e, partial) ==
    IF use_gsheets(s)
    THEN LET c == _get_gsheets_client(s) IN
         IF c.ws
         THEN (IF c.s.sheetsUp
               THEN Written("sheets", TRUE, c.warnings, e,
                        [c.s EXCEPT !.sheet = SheetView(<<HeaderRow, DataRow(data)>>)])
               ELSE [dest |-> "sheets", stored |-> FALSE, warnings |-> c.warnings,
                     errors |-> e, raised |-> TRUE, s |-> c.s])
         ELSE WriteLocal(c.s, data, c.warnings, e, partial)
    ELSE WriteLocal(s, data, 0, e, partial)

\* write_party, step 1: the gist; an exception is reported with st.error
\* and the next backend is tried
WriteNormalized(s, data, partial) ==
    IF use_gist(s)
    THEN LET g == _gist_write_file(s, CsvText(data)) IN
         IF g.raised THEN WriteSheets(s, data, 1, partial)
         ELSE Written("gist", TRUE, 0, 0, g.s)
    ELSE WriteSheets(s, data, 0, partial)

WriteParty(s, data, partial) == WriteNormalized(s, Normalize(data), partial)

\* What a write that fails on a full file system can leave in the file it
\* truncated: nothing, or the header row
Partials == {<< >>, WriteRow(HeaderRow)}
PartialsIn(s) == IF s.fileMode = "full" THEN Partials ELSE {<< >>}

-----------------------------------------------------------------------------
(* main: the GM key gate and the page load                                 *)

\* _get_edit_key: the environment's EDIT_KEY when it is not empty, else the
\* secrets store's, stripped
_get_edit_key(envk, seck) == IF envk # << >> THEN Strip(envk) ELSE Strip(seck)

\* str(st.query_params.get("key", "")).strip()
provided_key(key) == Strip(key)

\* A gate without bool(EDIT_KEY)
can_edit_NoEmptyCheck(envk, seck, key) == provided_key(key) = _get_edit_key(envk, seck)

\* can_edit = bool(EDIT_KEY) and (provided_key == EDIT_KEY)
can_edit(envk, seck, key) ==
    LET EDIT_KEY == _get_edit_key(envk, seck) IN
    EDIT_KEY # << >> /\ provided_key(key) = EDIT_KEY

\* A Save button outside "if can_edit:"
SaveRuns_Ungated(edit, click) == click

\* The edit form, and its Save button, exist only under "if can_edit:"
SaveRuns(edit, click) == edit /\ click

\* new_data of the Save handler: str(level) and the stripped text inputs
new_data(form) ==
    [i \in 1..Len(PARTY_FIELDS) |->
        [k |-> PARTY_FIELDS[i],
         v |-> IF PARTY_FIELDS[i] = "Level" THEN form.level
               ELSE Strip(DictGet(form.inputs, PARTY_FIELDS[i], Empty))]]

\* The page of a run that saves nothing: the party read_party returned, or
\* st.exception when read_party raised
Shown(edit, r) ==
    [can_edit |-> edit, party |-> r.rec, wrote |-> FALSE,
     data |-> << >>, dest |-> "none", stored |-> FALSE,
     warnings |-> r.warnings, errors |-> 0, success |-> FALSE,
     exception |-> r.raised, s |-> r.s]

\* The page of a run that saved: write_party(new_data), then
\* st.success("Party updated.") whenever write_party came back
AfterSave(page, data, w) ==
    [page EXCEPT !.wrote = TRUE, !.data = data,
                 !.dest = w.dest, !.stored = w.stored,
                 !.warnings = page.warnings + w.warnings,
                 !.errors = w.errors, !.success = ~w.raised,
                 !.exception = w.raised, !.s = w.s]

\* main below the gate, r being what read_party returned
MainBody(edit, r, click, form, partial) ==
    IF ~r.raised /\ SaveRuns(edit, click)
    THEN AfterSave(Shown(edit, r), new_data(form),
                   WriteParty(r.s, new_data(form), partial))
    ELSE Shown(edit, r)

\* One run of main: the gate, read_party, and under the gate the save:
\* write_party, st.success("Party updated."), rerun.  An exception that
\* leaves read_party or write_party ends the run in st.exception.
MainRun(s, g, key, click, form, partial) ==
    MainBody(can_edit(g.envKey, g.secretKey, key), ReadParty(s), click, form, partial)

-----------------------------------------------------------------------------
(* Inputs                                                                  *)

D(k, v) == [k |-> k, v |-> v]

\* The dicts handed to write_party: a record whose values need stripping
\* and quoting, with a key that is no field; the empty dict; a record with
\* keys missing and a line break inside a value (st.text_area gives such).
SampleRecords ==
    { << D("Extra", <<"a">>), D("Level", <<" ", "5">>), D("Session Date", <<"a">>),
         D("Location", <<"a", ",">>), D("What Happened Last", <<"a", " ", "b">>),
         D("Quest Hooks", <<"\"", "b", " ">>), D("Loot/Rewards", <<"b">>) >>,
      << >>,
      << D("Level", <<"5">>), D("What Happened Last", <<"a", "\n", "b">>) >> }

\* What somebody else can put into the gist or the local file: columns
\* reordered with one that is no field and fields missing; a data row
\* shorter than the header; the header alone; nothing.
TOdd ==
    WriteRow(<< <<"Extra">>, <<"Loot/Rewards">>, <<"Level">> >>)
        \o WriteRow(<< <<"a">>, <<"b">>, <<"5">> >>)
TShort == WriteRow(HeaderRow) \o WriteRow(<< <<"5">>, <<"a">> >>)
THeader == WriteRow(HeaderRow)
ExternalTexts == {TOdd, TShort, THeader, << >>}

\* What somebody else can put into the worksheet (get_all_values gives
\* rows of one length): odd columns, the header alone, nothing.
SOdd == << << <<"Extra">>, <<"Loot/Rewards">>, <<"Level">> >>,
           << <<"a">>, <<"b">>, <<"5">> >> >>
ExternalSheets == {SOdd, <<HeaderRow>>, << >>}

\* What the GM types into the edit form
Forms ==
    { [level |-> <<"5">>,
       inputs |-> << D("Session Date", <<"a">>), D("Location", <<" ", "b">>),
                     D("What Happened Last", <<"a", " ", "b">>),
                     D("Quest Hooks", <<"a", ",", "b">>), D("Loot/Rewards", <<"\"">>) >>],
      [level |-> <<"1">>, inputs |-> << >>] }

\* The form of a load in which Save is not clicked is not looked at
NoForm == [level |-> <<"1">>, inputs |-> << >>]

\* The values of ?key= that page loads come with
PageKeys == {<<"a">>, <<"A">>}

\* The characters of keys, and the longest key tried
KeyAlphabet == {"a", "A", " "}
MaxKeyLen == 2
Keys == UNION {[1..n -> KeyAlphabet] : n \in 0..MaxKeyLen}

ConfigNames ==
    {"GIST_TOKEN", "GIST_ID", "GIST_FILENAME", "GSHEETS_SA_JSON", "GSHEETS_SHEET_NAME"}

-----------------------------------------------------------------------------
(* State machine                                                           *)

NoOp == [op |-> "none", data |-> << >>, rec |-> NoRecord, src |-> "none",
         stored |-> FALSE, warnings |-> 0, errors |-> 0, raised |-> FALSE,
         success |-> FALSE]
NoSave == [set |-> FALSE, rec |-> NoRecord]
NoGate == [envKey |-> << >>, secretKey |-> << >>, key |-> << >>, can_edit |-> FALSE]

Init ==
    /\ secrets \in [ConfigNames -> BOOLEAN]
    /\ gistSvc = "up"
    /\ gistText = NoFile
    /\ sheetsUp = TRUE
    /\ sheet = NoTab
    /\ wsCache = "unset"
    /\ fileMode = "ok"
    /\ fileText = NoFile
    /\ last = NoOp
    /\ saved = NoSave
    /\ gate = NoGate

SetState(s) ==
    /\ secrets' = s.secrets
    /\ gistSvc' = s.gistSvc
    /\ gistText' = s.gistText
    /\ sheetsUp' = s.sheetsUp
    /\ sheet' = s.sheet
    /\ wsCache' = s.wsCache
    /\ fileMode' = s.fileMode
    /\ fileText' = s.fileText

\* A call of read_party
Read ==
    \E r \in {ReadParty(Cur)} :
    /\ SetState(r.s)
    /\ last' = [NoOp EXCEPT !.op = "read", !.rec = r.rec, !.src = r.src,
                             !.warnings = r.warnings, !.raised = r.raised]
    /\ UNCHANGED <<saved, gate>>

\* A call of write_party(data)
Write ==
    \E data \in SampleRecords, partial \in PartialsIn(Cur) :
        \E r \in {WriteParty(Cur, data, partial)} :
        /\ SetState(r.s)
        /\ last' = [NoOp EXCEPT !.op = "write", !.data = data, !.src = r.dest,
                                 !.stored = r.stored, !.warnings = r.warnings,
                                 !.errors = r.errors, !.raised = r.raised]
        /\ UNCHANGED <<saved, gate>>

\* The environment: the services go down and come back, the file system
\* refuses writes or fills up, the stored content is edited elsewhere, the
\* process is started again.  A backend that is not configured is never
\* contacted, so its state is left alone.  The record of the last
\* operation is dropped, so that it is always about the current state.
GistOutage ==
    /\ use_gist(Cur)
    /\ \E v \in {"up", "down", "rawfail"} \ {gistSvc} : gistSvc' = v
    /\ last' = NoOp
    /\ UNCHANGED <<secrets, gistText, sheetsUp, sheet, wsCache, fileMode, fileText,
                   saved, gate>>

GistEdited ==
    /\ use_gist(Cur)
    /\ \E t \in ExternalTexts \ {gistText} : gistText' = t
    /\ last' = NoOp
    /\ UNCHANGED <<secrets, gistSvc, sheetsUp, sheet, wsCache, fileMode, fileText,
                   saved, gate>>

SheetsOutage ==
    /\ use_gsheets(Cur)
    /\ sheetsUp' = ~sheetsUp
    /\ last' = NoOp
    /\ UNCHANGED <<secrets, gistSvc, gistText, sheet, wsCache, fileMode, fileText,
                   saved, gate>>

SheetEdited ==
    /\ use_gsheets(Cur)
    /\ \E v \in ExternalSheets \ {sheet} : sheet' = v
    /\ last' = NoOp
    /\ UNCHANGED <<secrets, gistSvc, gistText, sheetsUp, wsCache, fileMode, fileText,
                   saved, gate>>

FileSystemDenies ==
    /\ fileMode \in {"ok", "denied"}
    /\ fileMode' = IF fileMode = "ok" THEN "denied" ELSE "ok"
    /\ last' = NoOp
    /\ UNCHANGED <<secrets, gistSvc, gistText, sheetsUp, sheet, wsCache, fileText,
                   saved, gate>>

FileSystemFull ==
    /\ fileMode' = IF fileMode = "full" THEN "ok" ELSE "full"
    /\ last' = NoOp
    /\ UNCHANGED <<secrets, gistSvc, gistText, sheetsUp, sheet, wsCache, fileText,
                   saved, gate>>

FileEdited ==
    /\ \E t \in (ExternalTexts \ {<< >>}) \ {fileText} : fileText' = t
    /\ last' = NoOp
    /\ UNCHANGED <<secrets, gistSvc, gistText, sheetsUp, sheet, wsCache, fileMode,
                   saved, gate>>

Restart ==
    /\ wsCache # "unset"
    /\ wsCache' = "unset"
    /\ last' = NoOp
    /\ UNCHANGED <<secrets, gistSvc, gistText, sheetsUp, sheet, fileMode, fileText,
                   saved, gate>>

Next ==
    \/ Read
    \/ Write
    \/ GistOutage
    \/ GistEdited
    \/ SheetsOutage
    \/ SheetEdited
    \/ FileSystemDenies
    \/ FileSystemFull
    \/ FileEdited
    \/ Restart

Spec == Init /\ [][Next]_vars

-----------------------------------------------------------------------------
(* C1: backend selection                                                   *)

\* The configuration as the claim states it, and the backend the priority
\* order names for it
GistConfigured == secrets.GIST_TOKEN /\ secrets.GIST_ID /\ secrets.GIST_FILENAME
SheetsConfigured == secrets.GSHEETS_SA_JSON /\ secrets.GSHEETS_SHEET_NAME
Preferred ==
    IF GistConfigured THEN "gist" ELSE IF SheetsConfigured THEN "sheets" ELSE "file"

\* Every configured backend is reachable and holds data: the gist service
\* answers and the gist file is not blank; the Sheets service answers and
\* the process holds no cached failure to connect to it; the local file
\* can be written.
GistHoldsData == gistText # NoFile /\ Strip(gistText) # << >>
AllReachable ==
    /\ GistConfigured => gistSvc = "up" /\ GistHoldsData
    /\ SheetsConfigured => sheetsUp /\ wsCache # "none"
    /\ fileMode = "ok"

-----------------------------------------------------------------------------
(* C2: round trip                                                          *)

HasLineBreak(rec) ==
    \E i \in 1..Len(rec) : \E j \in 1..Len(rec[i].v) : rec[i].v[j] \in LineBreaks

\* C2: in every state, for every record, when write_party stores the
\* record and the read that follows it at once is answered by the gist's
\* raw URL, read_party returns the normalization of the record; a record
\* that goes to the gist is one without a line break in a value.
C2_RoundTrip ==
    \A data \in SampleRecords, partial \in PartialsIn(Cur) :
    \A w \in {WriteParty(Cur, data, partial)} :
    \A r \in {ReadParty(w.s)} :
            (/\ w.stored
             /\ w.s.gistSvc # "rawfail"
             /\ w.dest = "gist" => ~HasLineBreak(Normalize(data)))
            => ~r.raised /\ r.rec = Normalize(data)

\* A record whose values needed stripping and quoting was written to the
\* gist and read back from it
C2_Witness ==
    /\ last.op = "write" /\ last.src = "gist" /\ last.stored
    /\ gistSvc = "up"
    /\ last.data # Normalize(last.data)
    /\ \E i \in 1..Len(last.data) : NeedsQuote(last.data[i].v)
    /\ \E r \in {ReadParty(Cur)} : r.src = "gist" /\ r.rec = Normalize(last.data)

-----------------------------------------------------------------------------
(* C4 to C7: what a read returns when a backend fails or holds odd data    *)
(* (an environment step resets last, so the state a read is recorded in   *)
(* is the state it ran in, but for the handle and worksheet it made)      *)

\* C4: when the gist is configured and its fetch throws, read_party
\* returns without raising, from a lower backend (the local file when
\* Google Sheets is not configured), with exactly one warning.
C4_GistFetchFallback ==
    (last.op = "read" /\ GistConfigured /\ gistSvc = "down") =>
        /\ ~last.raised
        /\ last.src = (IF SheetsConfigured THEN last.src ELSE "file")
        /\ last.src # "gist"
        /\ last.warnings = 1

\* C5: no call of read_party or write_party lets an exception of a remote
\* call out to its caller.
C5_NothingPropagates ==
    last.op \in {"read", "write"} => ~last.raised

\* The backend the priority order selects is reachable and holds no data
PreferredHoldsNoData ==
    CASE Preferred = "gist" ->
            /\ gistSvc = "up"
            /\ \/ ~GistHoldsData
               \/ ~FirstDictRow(CsvReader(SplitLines(gistText))).found
      [] Preferred = "sheets" ->
            /\ sheetsUp /\ wsCache # "none"
            /\ sheet = NoTab \/ Len(sheet) < 2
      [] OTHER ->
            /\ fileMode # "denied"
            /\ \/ fileText = NoFile
               \/ ~FirstDictRow(CsvReader(FileLines(fileText))).found

\* C6: when the backend selected by priority is reachable and holds no
\* data, read_party returns the all-empty record and does not fail.
C6_NoDataGivesDefaults ==
    (last.op = "read" /\ PreferredHoldsNoData) =>
        ~last.raised /\ last.rec = _defaults

\* A str: every token is a character or a column name, never None's
IsStr(v) == v # NoneVal

\* C7: every record read_party returns has exactly the keys of
\* PARTY_FIELDS, in that order, and every value is a string.
C7_CanonicalShape ==
    (last.op = "read" /\ ~last.raised) =>
        /\ Len(last.rec) = Len(PARTY_FIELDS)
        /\ \A i \in 1..Len(PARTY_FIELDS) :
              last.rec[i].k = PARTY_FIELDS[i] /\ IsStr(last.rec[i].v)

-----------------------------------------------------------------------------
(* The gate alone: every pair of configured EDIT_KEY values, every key     *)

InitGate ==
    /\ secrets = [n \in ConfigNames |-> FALSE]
    /\ gistSvc = "up"
    /\ gistText = NoFile
    /\ sheetsUp = TRUE
    /\ sheet = NoTab
    /\ wsCache = "unset"
    /\ fileMode = "ok"
    /\ fileText = NoFile
    /\ last = NoOp
    /\ saved = NoSave
    /\ gate \in [envKey : Keys, secretKey : Keys, key : {<< >>}, can_edit : {FALSE}]

\* The first lines of main, for a request with ?key=key
EvaluateGate ==
    \E key \in Keys :
        /\ gate' = [gate EXCEPT !.key = key,
                                !.can_edit = can_edit(gate.envKey, gate.secretKey, key)]
        /\ last' = [NoOp EXCEPT !.op = "gate"]
        /\ UNCHANGED <<secrets, gistSvc, gistText, sheetsUp, sheet, wsCache, fileMode,
                       fileText, saved>>

NextGate == EvaluateGate

SpecGate == InitGate /\ [][NextGate]_vars

\* The configured secret: the one _get_edit_key takes, as configured
ConfiguredSecret == IF gate.envKey # << >> THEN gate.envKey ELSE gate.secretKey

Surrounds(raw, core) ==
    /\ core # << >>
    /\ core[1] \notin Whitespace /\ core[Len(core)] \notin Whitespace
    /\ \E i \in 0..Len(raw) :
          /\ i + Len(core) <= Len(raw)
          /\ SubSeq(raw, i + 1, i + Len(core)) = core
          /\ \A m \in 1..Len(raw) :
                (m <= i \/ m > i + Len(core)) => raw[m] \in Whitespace

-----------------------------------------------------------------------------
(* Page loads                                                              *)

\* Each backend configured with all of its values or with none; a secret
\* in the secrets store or none
InitPage ==
    /\ secrets \in {[n \in ConfigNames |->
                        IF n \in {"GIST_TOKEN", "GIST_ID", "GIST_FILENAME"} THEN g ELSE h]
                    : g \in BOOLEAN, h \in BOOLEAN}
    /\ gistSvc = "up"
    /\ gistText = NoFile
    /\ sheetsUp = TRUE
    /\ sheet = NoTab
    /\ wsCache = "unset"
    /\ fileMode = "ok"
    /\ fileText = NoFile
    /\ last = NoOp
    /\ saved = NoSave
    /\ gate \in [envKey : {<< >>}, secretKey : {<< >>, <<"a">>}, key : {<< >>},
                 can_edit : {FALSE}]

\* One page load: main from top to bottom, with the key of the URL, the
\* Save button clicked or not, and what the form holds
LoadPage ==
    \E key \in PageKeys, click \in BOOLEAN :
      \E form \in (IF click THEN Forms ELSE {NoForm}), partial \in PartialsIn(Cur) :
        \E m \in {MainRun(Cur, gate, key, click, form, partial)} :
        /\ SetState(m.s)
        /\ gate' = [gate EXCEPT !.key = key, !.can_edit = m.can_edit]
        /\ last' = [op |-> "load", data |-> m.data, rec |-> m.party, src |-> m.dest,
                    stored |-> m.stored, warnings |-> m.warnings, errors |-> m.errors,
                    raised |-> m.exception, success |-> m.success]
        /\ saved' = IF m.stored THEN [set |-> TRUE, rec |-> Normalize(m.data)] ELSE saved

NextPage ==
    \/ LoadPage
    \/ GistOutage
    \/ SheetsOutage
    \/ FileSystemDenies

SpecPage == InitPage /\ [][NextPage]_vars

\* C8: when a save reaches the local file and the write fails, an error is
\* shown, the save is not reported as done, nothing is raised, and
\* read_party returns afterwards what it returned before the save.
C8_LocalWriteFailure ==
    (last.op = "load" /\ last.data # << >> /\ last.src = "file" /\ ~last.stored) =>
        /\ last.errors >= 1
        /\ ~last.success
        /\ ~last.raised
        /\ ReadParty(Cur).rec = last.rec

\* The worksheet as a reader finds it: _get_gsheets_client adds a missing
\* "Party" worksheet with the header row, and no record
SheetAsRead(sh) == IF sh = NoTab THEN <<HeaderRow>> ELSE sh

\* C9: in every page load the mode is the gate's verdict on that load's
\* own key and the configured secret; write_party runs only in a load
\* whose gate granted edit mode; a read-only load leaves what every
\* backend stores as it was.
C9_GatePerLoad ==
    [][last'.op = "load" =>
          /\ gate'.can_edit <=>
                \E core \in Keys :
                    Surrounds(ConfiguredSecret', core) /\ Surrounds(gate'.key, core)
          /\ last'.data # << >> => gate'.can_edit
          /\ ~gate'.can_edit =>
                /\ gistText' = gistText
                /\ fileText' = fileText
                /\ SheetAsRead(sheet') = SheetAsRead(sheet)]_vars

\* A read-only load right after a load that saved in edit mode
C9_Witness ==
    /\ last.op = "load" /\ ~gate.can_edit /\ gate.key = <<"A">>
    /\ saved.set
    /\ last.rec = saved.rec

\* Every service answers and the file system takes writes
AllUp == gistSvc = "up" /\ sheetsUp /\ fileMode = "ok"

\* C10: whenever the services are all available, read_party returns the
\* record of the most recent save that write_party completed.
C10_LastWriterWins ==
    (saved.set /\ AllUp) =>
        \A r \in {ReadParty(Cur)} : ~r.raised /\ r.rec = saved.rec

=============================================================================
